---- MODULE Spec2Model ----
(***************************************************************************)
(* WeatherInsight: the query-interpretation and forecast-resolution        *)
(* pipeline of backend/modules.                                            *)
(*                                                                         *)
(*   get_weather_llm_answer                (llm_weather_answer.py)         *)
(*     -> get_weather_forecast             (weatherapi_forecast_data.py)   *)
(*          -> get_city_and_forecast_days_for_weatherapi                   *)
(*                                 (llm_extract_city_and_forecast_days.py) *)
(*                                                                         *)
(* One request is one run of the state machine.  The external capabilities *)
(* (language detection, the language model, the geolocation service, the   *)
(* weather provider) and the wall clock are the environment: each call's   *)
(* outcome is drawn from a small set, and the clock may advance before any *)
(* of the program's reads of it.                                           *)
(*                                                                         *)
(* Encoding of Python values:                                              *)
(*   None / a present value x      <<>> / <<x>>                            *)
(*   dict                          function from its keys (strings)        *)
(*   date                          day number (integer)                    *)
(*   date string                   [kind, day]; kind "iso" is the          *)
(*                                 zero-padded YYYY-MM-DD form, "unpadded" *)
(*                                 a form strptime accepts but strftime    *)
(*                                 never produces, "garbage" one strptime  *)
(*                                 rejects, "empty" the string ""          *)
(*   "YYYY-MM-DD HH:MM" string     [date, hh]                              *)
(*   the clock                     hours since day 0, 00:00                *)
(***************************************************************************)
EXTENDS Integers, Sequences, FiniteSets, TLC

VARIABLES
    pc,               \* position of the request in the pipeline
    entry,            \* "composer": called through get_weather_llm_answer;
                      \* "direct": get_weather_forecast called on its own
    include_hours,    \* arguments of get_weather_forecast
    hours_before,
    hours_after,
    clock,            \* the wall clock, in hours
    ticks,            \* how often the clock advanced (bounded)
    calls,            \* the external calls made so far, in order
    user_language,    \* llm_weather_answer.py: user_language
    today_str,        \* extractor: today_str (line 59), as a day number
    result_text,      \* extractor: the model's text
    ext_today,        \* extractor: today (line 98)
    result,           \* resolver: result, the extractor's return value
    today,            \* resolver: today (line 82)
    target_date_str,  \* resolver locals
    target_date,
    city,
    hour,
    now_hour,         \* datetime.now().hour as read at line 101
    ip_data,          \* what the geolocation call gave
    forecast_days,
    response,         \* the weather provider's response
    weather_data,     \* get_weather_forecast's return value
    answer,           \* get_weather_llm_answer's return value
    exc               \* the exception that left the pipeline, "" if none

vars == <<pc, entry, include_hours, hours_before, hours_after, clock, ticks,
          calls, user_language, today_str, result_text, ext_today, result,
          today, target_date_str, target_date, city, hour, now_hour, ip_data,
          forecast_days, response, weather_data, answer, exc>>

(***************************************************************************)
(* Bounds of the model.                                                    *)
(***************************************************************************)
MaxTicks == 1      \* clock advances per request
MaxAhead == 1      \* the model names dates up to this many days after today
MaxWindow == 1     \* hours_before, hours_after of a direct call: 0 or MaxWindow
NumDays == 3       \* days in a provider response

(***************************************************************************)
(* Program constants.                                                      *)
(***************************************************************************)
HoursPerDay == 24
LastHour == 23
HoursBefore == 2
HoursAfter == 3
StatusOK == 200

(***************************************************************************)
(* Python values.                                                          *)
(***************************************************************************)
None == <<>>
Some(x) == <<x>>
EmptyDict == <<>>

dict_get(d, k, default) == IF k \in DOMAIN d THEN d[k] ELSE default

setdefault(d, k, v) == IF k \in DOMAIN d THEN d ELSE d @@ (k :> v)

dict_set(d, k, v) == [x \in (DOMAIN d) \cup {k} |-> IF x = k THEN v ELSE d[x]]

\* truthiness of an optional string: None and "" are falsy
truthy_str(o) == o # None /\ o # Some("")

\* truthiness of an optional date string
truthy_date_str(o) == o # None /\ o[1].kind # "empty"

Max(a, b) == IF a >= b THEN a ELSE b
Min(a, b) == IF a <= b THEN a ELSE b

(***************************************************************************)
(* datetime.                                                               *)
(***************************************************************************)
date_of(c) == c \div HoursPerDay
hour_of(c) == c % HoursPerDay

iso(d) == [kind |-> "iso", day |-> d]
unpadded(d) == [kind |-> "unpadded", day |-> d]
garbage == [kind |-> "garbage", day |-> 0]
empty_str == [kind |-> "empty", day |-> 0]

strftime(d) == iso(d)
strptime_ok(s) == s.kind \in {"iso", "unpadded"}
strptime(s) == s.day

(***************************************************************************)
(* The environment's answers.                                              *)
(***************************************************************************)
Languages == {"en", "de"}

\* a dict that has key k with one of vals, or lacks it
OptKey(k, vals) == {EmptyDict} \cup {k :> v : v \in vals}

CityVals == {None, Some(""), Some("Cologne")}
HourVals == {None, Some(22), Some(25)}
DateVals(t) ==
    {Some(empty_str), Some(garbage), Some(unpadded(t + 1))}
        \cup {Some(iso(t + k)) : k \in -1 .. MaxAhead}

\* what the language model may answer to the extraction prompt that names
\* day t as today: text without braces, a brace fragment that is no JSON, or
\* a JSON object with any subset of the three keys (a forecast_date of null
\* reads like a missing one, line 99)
ModelTexts(t) ==
    {[kind |-> "plain", dict |-> EmptyDict], [kind |-> "badjson", dict |-> EmptyDict]}
        \cup {[kind |-> "json", dict |-> a @@ b @@ c] :
                a \in OptKey("city", CityVals),
                b \in OptKey("forecast_date", DateVals(t)),
                c \in OptKey("hour", HourVals)}

\* requests.get("https://ipinfo.io/json").json(): raises, or a dict
GeoResponses ==
    {[raised |-> TRUE, body |-> EmptyDict], [raised |-> FALSE, body |-> EmptyDict]}
        \cup {[raised |-> FALSE, body |-> "city" :> v] :
                v \in {None, Some(""), Some("Paris")}}

(***************************************************************************)
(* get_city_and_forecast_days_for_weatherapi, lines 81-109.                *)
(***************************************************************************)
Returned(v) == [raised |-> FALSE, error |-> "", value |-> v]
Raised(msg) == [raised |-> TRUE, error |-> msg, value |-> EmptyDict]

\* line 87: re.search(r'{.*}', result_text, re.DOTALL)
re_search(text) == text.kind # "plain"

\* line 89: json.loads(match.group())
json_loads(text) ==
    IF text.kind = "json" THEN Returned(text.dict) ELSE Raised("Expecting value")

\* line 91
no_match_dict == ("city" :> None) @@ ("forecast_date" :> None) @@ ("hour" :> None)

\* lines 94-104, on the decoded dict
with_forecast_days(result_dict, today_) ==
    LET d1 == setdefault(result_dict, "city", Some("Berlin"))
        d2 == setdefault(d1, "hour", None)
        tds == dict_get(d2, "forecast_date", None)
    IN  IF truthy_date_str(tds)
        THEN IF strptime_ok(tds[1])
             THEN Returned(dict_set(d2, "forecast_days", (strptime(tds[1]) - today_) + 1))
             ELSE Raised("time data does not match format")
        ELSE Returned(dict_set(d2, "forecast_days", 1))

\* lines 87-106: the try block after the model call
extractor_try(text, today_) ==
    IF re_search(text)
    THEN LET j == json_loads(text)
         IN  IF j.raised THEN j ELSE with_forecast_days(j.value, today_)
    ELSE with_forecast_days(no_match_dict, today_)

\* line 109
default_record(msg) ==
    ("city" :> Some("Berlin")) @@ ("forecast_days" :> 1) @@ ("hour" :> None)
        @@ ("error" :> msg)

\* lines 108-109: except Exception as e
extractor_no_except(outcome) == outcome

extractor_except(outcome) ==
    IF outcome.raised THEN Returned(default_record(outcome.error)) ELSE outcome

(***************************************************************************)
(* get_weather_forecast, lines 78-103: fallbacks.                          *)
(***************************************************************************)
\* line 92: if not city
always_geolocate(c) == TRUE

needs_geolocation(c) == ~truthy_str(c)

\* lines 93-97
geo_city_no_default(r) == IF r.raised THEN None ELSE dict_get(r.body, "city", None)

geo_city(r) ==
    IF r.raised THEN Some("Berlin") ELSE dict_get(r.body, "city", Some("Berlin"))

\* line 101
fallback_hour(h) == (h + 2) % HoursPerDay

\* line 103
days_without_target(target, today_) == target - today_

days_to_request(target, today_) == (target - today_) + 1

(***************************************************************************)
(* Initial state: no request yet.                                          *)
(***************************************************************************)
\* the request arrives in the last hour of day 1
StartHours == {23}

Init ==
    /\ pc = "idle"
    /\ entry = "none"
    /\ include_hours = FALSE
    /\ hours_before = 0
    /\ hours_after = 0
    /\ clock \in {HoursPerDay + h : h \in StartHours}
    /\ ticks = 0
    /\ calls = <<>>
    /\ user_language = ""
    /\ today_str = 0
    /\ result_text = None
    /\ ext_today = 0
    /\ result = EmptyDict
    /\ today = 0
    /\ target_date_str = None
    /\ target_date = 0
    /\ city = None
    /\ hour = None
    /\ now_hour = 0
    /\ ip_data = None
    /\ forecast_days = 0
    /\ response = None
    /\ weather_data = EmptyDict
    /\ answer = EmptyDict
    /\ exc = ""

\* the wall clock advances by an hour before one of the program's reads of it
\* (lines 59 and 98 of the extractor, lines 82 and 101 of the resolver)
Tick ==
    /\ ticks < MaxTicks
    /\ pc \in {"extract_call", "extract_parse", "resolve", "hour"}
    /\ clock' = clock + 1
    /\ ticks' = ticks + 1
    /\ UNCHANGED <<pc, entry, include_hours, hours_before, hours_after, calls,
                   user_language, today_str, result_text, ext_today, result,
                   today, target_date_str, target_date, city, hour, now_hour,
                   ip_data, forecast_days, response, weather_data, answer, exc>>

\* llm_weather_answer.py lines 50-61: detect the language, call the resolver
\* with include_hours=True, hours_before=2, hours_after=3
AnswerStart ==
    /\ pc = "idle"
    /\ \E lang \in Languages, detect_raised \in BOOLEAN :
          user_language' = IF detect_raised THEN "en" ELSE lang
    /\ entry' = "composer"
    /\ include_hours' = TRUE
    /\ hours_before' = HoursBefore
    /\ hours_after' = HoursAfter
    /\ pc' = "extract_call"
    /\ UNCHANGED <<clock, ticks, calls, today_str, result_text, ext_today,
                   result, today, target_date_str, target_date, city, hour,
                   now_hour, ip_data, forecast_days, response, weather_data,
                   answer, exc>>

\* get_weather_forecast called by another caller, with any arguments (the
\* window widths are ignored when include_hours is false, and then left 0)
ForecastStart ==
    /\ pc = "idle"
    /\ entry' = "direct"
    /\ \E incl \in BOOLEAN, before \in {0, MaxWindow}, after \in {0, MaxWindow} :
          /\ include_hours' = incl
          /\ hours_before' = IF incl THEN before ELSE 0
          /\ hours_after' = IF incl THEN after ELSE 0
    /\ pc' = "extract_call"
    /\ UNCHANGED <<clock, ticks, calls, user_language, today_str, result_text,
                   ext_today, result, today, target_date_str, target_date, city,
                   hour, now_hour, ip_data, forecast_days, response,
                   weather_data, answer, exc>>

\* the extractor's return (or raise) into get_weather_forecast, line 77
ExtractorReturns(outcome) ==
    IF outcome.raised
    THEN /\ pc' = "raised"
         /\ exc' = outcome.error
         /\ UNCHANGED result
    ELSE /\ pc' = "resolve"
         /\ result' = outcome.value
         /\ UNCHANGED exc

\* extractor lines 59-84: read today for the prompt, call the model
ExtractorCallModel ==
    /\ pc = "extract_call"
    /\ today_str' = date_of(clock)
    /\ calls' = Append(calls, "llm_extract")
    /\ \/ \E text \in ModelTexts(date_of(clock)) :
             /\ result_text' = Some(text)
             /\ pc' = "extract_parse"
             /\ UNCHANGED <<result, exc>>
       \/ /\ ExtractorReturns(extractor_except(Raised("model call failed")))
          /\ UNCHANGED result_text
    /\ UNCHANGED <<entry, include_hours, hours_before, hours_after, clock, ticks,
                   user_language, ext_today, today, target_date_str,
                   target_date, city, hour, now_hour, ip_data, forecast_days,
                   response, weather_data, answer>>

\* extractor lines 87-109: parse the text, read today, count the days
ExtractorParse ==
    /\ pc = "extract_parse"
    /\ ext_today' = date_of(clock)
    /\ ExtractorReturns(extractor_except(extractor_try(result_text[1], date_of(clock))))
    /\ UNCHANGED <<entry, include_hours, hours_before, hours_after, clock, ticks,
                   calls, user_language, today_str, result_text, today,
                   target_date_str, target_date, city, hour, now_hour, ip_data,
                   forecast_days, response, weather_data, answer>>

\* resolver lines 78-92: read the intent and today, default the target date
ResolveDate ==
    /\ pc = "resolve"
    /\ today' = date_of(clock)
    /\ city' = dict_get(result, "city", None)
    /\ hour' = dict_get(result, "hour", None)
    /\ LET tds == dict_get(result, "forecast_date", None)
       IN  IF ~truthy_date_str(tds)
           THEN /\ target_date' = date_of(clock)
                /\ target_date_str' = Some(strftime(date_of(clock)))
                /\ pc' = IF needs_geolocation(city') THEN "geo" ELSE "hour"
                /\ UNCHANGED exc
           ELSE IF strptime_ok(tds[1])
           THEN /\ target_date' = strptime(tds[1])
                /\ target_date_str' = tds
                /\ pc' = IF needs_geolocation(city') THEN "geo" ELSE "hour"
                /\ UNCHANGED exc
           ELSE /\ pc' = "raised"
                /\ exc' = "ValueError"
                /\ UNCHANGED <<target_date, target_date_str>>
    /\ UNCHANGED <<entry, include_hours, hours_before, hours_after, clock, ticks,
                   calls, user_language, today_str, result_text, ext_today,
                   result, now_hour, ip_data, forecast_days, response,
                   weather_data, answer>>

\* resolver lines 93-97: the geolocation lookup
Geolocate ==
    /\ pc = "geo"
    /\ calls' = Append(calls, "geolocation")
    /\ \E r \in GeoResponses :
          /\ ip_data' = Some(r)
          /\ city' = geo_city(r)
    /\ pc' = "hour"
    /\ UNCHANGED <<entry, include_hours, hours_before, hours_after, clock, ticks,
                   user_language, today_str, result_text, ext_today, result,
                   today, target_date_str, target_date, hour, now_hour,
                   forecast_days, response, weather_data, answer, exc>>

\* resolver lines 100-103: default the hour, count the days
ResolveHour ==
    /\ pc = "hour"
    /\ IF hour = None
       THEN /\ now_hour' = hour_of(clock)
            /\ hour' = Some(fallback_hour(hour_of(clock)))
       ELSE UNCHANGED <<now_hour, hour>>
    /\ forecast_days' = days_to_request(target_date, today)
    /\ pc' = "weather"
    /\ UNCHANGED <<entry, include_hours, hours_before, hours_after, clock, ticks,
                   calls, user_language, today_str, result_text, ext_today,
                   result, today, target_date_str, target_date, city, ip_data,
                   response, weather_data, answer, exc>>

(***************************************************************************)
(* The weather provider.                                                   *)
(***************************************************************************)
FullDay == [i \in 1 .. HoursPerDay |-> i - 1]

\* a day whose hour 02:00 does not exist (clock change)
ShortDay == SelectSeq(FullDay, LAMBDA h : h # 2)

HourLists == {FullDay, ShortDay}

ProviderHour(d, h) ==
    [time |-> [date |-> d, hh |-> h], temp_c |-> h - d, condition |-> [text |-> "Clear"]]

ProviderDay(d, hs) ==
    [date |-> iso(d),
     day |-> [maxtemp_c |-> 12 + d, mintemp_c |-> 4 + d, condition |-> [text |-> "Sunny"]],
     hour |-> [i \in 1 .. Len(hs) |-> ProviderHour(d, hs[i])]]

\* n consecutive days from day a on
ProviderDays(a, n, hs) == [i \in 1 .. n |-> ProviderDay(a + i - 1, hs)]

ErrorStatuses == {400, 500}

\* requests.get(url): a network error, a non-200 status, a 200 with a body
\* that is not the documented JSON, or a 200 with a window of days that
\* starts at the provider's own today (the queried place's local date)
WeatherResponses(t) ==
    {[raised |-> TRUE, status_code |-> 0, wellformed |-> FALSE, forecastday |-> <<>>]}
        \cup {[raised |-> FALSE, status_code |-> c, wellformed |-> FALSE, forecastday |-> <<>>] :
                c \in ErrorStatuses \cup {StatusOK}}
        \cup {[raised |-> FALSE, status_code |-> StatusOK, wellformed |-> TRUE,
               forecastday |-> ProviderDays(a, n, hs)] :
                a \in t - 1 .. t + 1, n \in {0, NumDays}, hs \in HourLists}

(***************************************************************************)
(* get_weather_forecast, lines 107-136.                                    *)
(***************************************************************************)
\* line 109
is_failure(status_code) == status_code # StatusOK

\* line 110
status_error_no_code(status_code) ==
    "error" :> <<"Failed to retrieve weather data, status code ", StatusOK, ".">>

status_error(status_code) ==
    "error" :> <<"Failed to retrieve weather data, status code ", status_code, ".">>

\* line 117
not_found_error == "error" :> <<"Forecast for target date not found.">>

\* line 115: next((d for d in forecastday if d["date"] == target_date_str), None)
select_last(forecastday, tds) ==
    IF Len(forecastday) = 0 THEN None ELSE Some(forecastday[Len(forecastday)])

select_day(forecastday, tds) ==
    LET hits == {i \in 1 .. Len(forecastday) : Some(forecastday[i].date) = tds}
    IN  IF hits = {} THEN None
        ELSE Some(forecastday[CHOOSE i \in hits : \A j \in hits : i <= j])

\* line 133: datetime.strptime(h["time"], "%Y-%m-%d %H:%M").hour
parse_hour(time) == time.hh

\* lines 128-134
window_hours_wrapped(hours, h, before, after) ==
    LET keep(e) ==
            \E k \in (h - before) .. (h + after) : parse_hour(e.time) = k % HoursPerDay
    IN  SelectSeq([i \in 1 .. Len(hours) |->
                      [time |-> hours[i].time, temp_c |-> hours[i].temp_c,
                       condition |-> hours[i].condition.text]], keep)

window_hours(hours, h, before, after) ==
    LET start_hour == Max(0, h - before)
        end_hour == Min(LastHour, h + after)
        keep(e) == start_hour <= parse_hour(e.time) /\ parse_hour(e.time) <= end_hour
    IN  SelectSeq([i \in 1 .. Len(hours) |->
                      [time |-> hours[i].time, temp_c |-> hours[i].temp_c,
                       condition |-> hours[i].condition.text]], keep)

\* lines 119-134
build_day_dict(forecast_day, incl, h, before, after) ==
    LET day_dict ==
            ("date" :> forecast_day.date)
                @@ ("max_temp_c" :> forecast_day.day.maxtemp_c)
                @@ ("min_temp_c" :> forecast_day.day.mintemp_c)
                @@ ("condition" :> forecast_day.day.condition.text)
    IN  IF incl
        THEN dict_set(day_dict, "hours", window_hours(forecast_day.hour, h, before, after))
        ELSE day_dict

\* lines 112-136, on a 200 response: [raised, error, value]
filter_forecast(r, tds, c, incl, h, before, after) ==
    IF ~r.wellformed
    THEN Raised("malformed body")
    ELSE LET forecast_day == select_day(r.forecastday, tds)
         IN  IF forecast_day = None
             THEN Returned(not_found_error)
             ELSE Returned(("city" :> c)
                             @@ ("forecast_day" :>
                                   build_day_dict(forecast_day[1], incl, h, before, after)))

\* lines 108-136: what the resolver makes of the provider's response
handle_response(r, tds, c, incl, h, before, after) ==
    IF r.raised
    THEN Raised("ConnectionError")
    ELSE IF is_failure(r.status_code)
    THEN Returned(status_error(r.status_code))
    ELSE filter_forecast(r, tds, c, incl, h, before, after)

\* resolver lines 107-136: the provider call, the day picked, the hours cut
WeatherCall ==
    /\ pc = "weather"
    /\ calls' = Append(calls, "weather")
    /\ \E r \in WeatherResponses(date_of(clock)) :
          /\ response' = Some(r)
          /\ LET out == handle_response(r, target_date_str, city, include_hours,
                                        hour[1], hours_before, hours_after)
             IN  IF out.raised
                 THEN /\ pc' = "raised"
                      /\ exc' = out.error
                      /\ UNCHANGED weather_data
                 ELSE /\ weather_data' = out.value
                      /\ pc' = IF entry = "composer" THEN "answer_check" ELSE "done"
                      /\ UNCHANGED exc
    /\ UNCHANGED <<entry, include_hours, hours_before, hours_after, clock, ticks,
                   user_language, today_str, result_text, ext_today, result,
                   today, target_date_str, target_date, city, hour, now_hour,
                   ip_data, forecast_days, answer>>

(***************************************************************************)
(* get_weather_llm_answer, lines 62-95.                                    *)
(***************************************************************************)
\* line 64: not weather_data or "error" in weather_data
is_error(w) == w = EmptyDict \/ "error" \in DOMAIN w

sorry_text == "text" :> <<"Sorry, the weather data could not be retrieved.">>

\* what the language model may answer to the composition prompt, stripped
Proses == {"Hello! The weather in ..."}

\* lines 62-65
AnswerCheck ==
    /\ pc = "answer_check"
    /\ IF is_error(weather_data)
       THEN /\ answer' = sorry_text
            /\ pc' = "done"
       ELSE /\ pc' = "compose"
            /\ UNCHANGED answer
    /\ UNCHANGED <<entry, include_hours, hours_before, hours_after, clock, ticks,
                   calls, user_language, today_str, result_text, ext_today,
                   result, today, target_date_str, target_date, city, hour,
                   now_hour, ip_data, forecast_days, response, weather_data, exc>>

\* lines 87-95: the composition call
ComposeCall ==
    /\ pc = "compose"
    /\ calls' = Append(calls, "llm_compose")
    /\ \/ \E prose \in Proses : answer' = "text" :> <<prose>>
       \/ answer' = "text" :> <<"Error generating the answer: ", "model call failed">>
    /\ pc' = "done"
    /\ UNCHANGED <<entry, include_hours, hours_before, hours_after, clock, ticks,
                   user_language, today_str, result_text, ext_today, result,
                   today, target_date_str, target_date, city, hour, now_hour,
                   ip_data, forecast_days, response, weather_data, exc>>

Next ==
    \/ Tick
    \/ AnswerStart
    \/ ForecastStart
    \/ ExtractorCallModel
    \/ ExtractorParse
    \/ ResolveDate
    \/ Geolocate
    \/ ResolveHour
    \/ WeatherCall
    \/ AnswerCheck
    \/ ComposeCall

Spec == Init /\ [][Next]_vars

(***************************************************************************)
(* Vocabulary of the properties.                                           *)
(***************************************************************************)
Called(c) == \E i \in 1 .. Len(calls) : calls[i] = c

\* the messages of the exceptions raised inside the extractor's try block
ExtractorErrors ==
    {"model call failed", "Expecting value", "time data does not match format"}

\* the extractor has returned into the resolver
ExtractorReturned ==
    pc \in {"resolve", "geo", "hour", "weather", "answer_check", "compose", "done"}

\* the resolver is past its city fallback
CityResolved == pc \in {"hour", "weather", "answer_check", "compose", "done"}

\* the resolver has computed the day count it sends
DaysComputed == pc \in {"weather", "answer_check", "compose", "done"}

\* the resolver returned a forecast (not an error marker)
ForecastGiven == "forecast_day" \in DOMAIN weather_data

\* the provider answered 200 with a body of the documented shape
GoodResponse ==
    /\ response # None
    /\ ~response[1].raised
    /\ response[1].status_code = StatusOK
    /\ response[1].wellformed

(***************************************************************************)
(* C1: no failure of an external capability leaves get_weather_llm_answer  *)
(* as an exception: every request through it ends by returning a {text}    *)
(* record.  Stated as: a request through the composer never ends raised.   *)
(***************************************************************************)
C1_NoFailureEscapes == entry = "composer" => pc # "raised"

(***************************************************************************)
(* C2: the extractor never raises past its boundary.  A failed model call, *)
(* an undecodable brace fragment and an unparseable date string each give  *)
(* exactly {city: "Berlin", forecast_days: 1, hour: None, error: message}; *)
(* a text without a brace fragment gives city, forecast_date and hour None *)
(* with forecast_days = 1.                                                 *)
(***************************************************************************)
C2_ExtractorNeverRaises ==
    /\ pc = "raised" => exc \notin ExtractorErrors
    /\ ExtractorReturned =>
          /\ result_text = None =>
                result = [city |-> Some("Berlin"), forecast_days |-> 1, hour |-> None,
                          error |-> "model call failed"]
          /\ (result_text # None /\ result_text[1].kind = "badjson") =>
                result = [city |-> Some("Berlin"), forecast_days |-> 1, hour |-> None,
                          error |-> "Expecting value"]
          /\ (/\ result_text # None
              /\ result_text[1].kind = "json"
              /\ "forecast_date" \in DOMAIN result_text[1].dict
              /\ result_text[1].dict.forecast_date = Some(garbage)) =>
                result = [city |-> Some("Berlin"), forecast_days |-> 1, hour |-> None,
                          error |-> "time data does not match format"]
          /\ (result_text # None /\ result_text[1].kind = "plain") =>
                result = [city |-> None, forecast_date |-> None, hour |-> None,
                          forecast_days |-> 1]

\* the extractor returned the default record for a date string it could not parse
C2_Witness ==
    /\ pc = "resolve"
    /\ result_text # None
    /\ result_text[1].kind = "json"
    /\ "error" \in DOMAIN result
    /\ result.error = "time data does not match format"

(***************************************************************************)
(* C3: for every valid date string D and reference date R, forecast_days = *)
(* (D - R).days + 1 and forecast_days is never less than 1, both in the    *)
(* extractor's return value and in the day count the resolver sends.       *)
(***************************************************************************)
C3_DaysAtLeastOne ==
    /\ (ExtractorReturned /\ "forecast_date" \in DOMAIN result
            /\ truthy_date_str(result.forecast_date)) =>
          /\ result.forecast_days = (result.forecast_date[1].day - ext_today) + 1
          /\ result.forecast_days >= 1
    /\ DaysComputed =>
          /\ forecast_days = (target_date - today) + 1
          /\ forecast_days >= 1

NoCityExtracted ==
    \/ result_text = None
    \/ /\ result_text # None
       /\ \/ result_text[1].kind = "plain"
          \/ /\ result_text[1].kind = "json"
             /\ \/ "city" \notin DOMAIN result_text[1].dict
                \/ ~truthy_str(result_text[1].dict.city)

GeolocatedOrBerlin ==
    /\ Called("geolocation")
    /\ ip_data # None
    /\ city = IF ip_data[1].raised \/ "city" \notin DOMAIN ip_data[1].body
              THEN Some("Berlin")
              ELSE ip_data[1].body.city

(***************************************************************************)
(* C4: whenever extraction yields no city (model failure, no brace         *)
(* fragment, a fragment without a city key, city null or empty) the        *)
(* resolver attempts the geolocation lookup and queries with the           *)
(* geolocated city, or "Berlin" when the lookup fails or has no city.      *)
(***************************************************************************)
C4_GeolocationWheneverNoCity == (CityResolved /\ NoCityExtracted) => GeolocatedOrBerlin

ExtractorDefaultedCity ==
    \/ result_text = None
    \/ /\ result_text # None
       /\ \/ result_text[1].kind = "badjson"
          \/ /\ result_text[1].kind = "json"
             /\ \/ "city" \notin DOMAIN result_text[1].dict
                \/ /\ "forecast_date" \in DOMAIN result_text[1].dict
                   /\ result_text[1].dict.forecast_date = Some(garbage)

(***************************************************************************)
(* C4, amended: the geolocation lookup is attempted exactly when the       *)
(* extractor's record has a null or empty city, which is when the model's  *)
(* text has no brace fragment or its decoded fragment has a null or empty  *)
(* city (and extraction does not fail); the resolved city is the lookup's  *)
(* city field as it is, or "Berlin" when the lookup raises or has no city  *)
(* field.  After a model failure, an undecodable fragment, an unparseable  *)
(* date or a fragment without a city key the extractor has already set     *)
(* city to "Berlin": no lookup is made and the query is for "Berlin".      *)
(***************************************************************************)
C4_GeolocationOnlyForEmptyCity ==
    CityResolved =>
        /\ Called("geolocation") <=> ~truthy_str(result.city)
        /\ Called("geolocation") <=> (NoCityExtracted /\ ~ExtractorDefaultedCity)
        /\ Called("geolocation") => GeolocatedOrBerlin
        /\ ~Called("geolocation") => (city = result.city /\ ip_data = None)
        /\ ExtractorDefaultedCity => city = Some("Berlin")

\* no brace fragment: the lookup was made and its city is the one queried
C4_Witness ==
    /\ pc = "weather"
    /\ Called("geolocation")
    /\ result_text[1].kind = "plain"
    /\ city = Some("Paris")

(***************************************************************************)
(* C5: whenever the resolver issues the provider query, city is a present, *)
(* non-empty string and hour is an integer in 0..23, whatever the          *)
(* extraction and the geolocation gave; when extraction yields no hour,    *)
(* hour = (current_hour + 2) mod 24.                                       *)
(***************************************************************************)
C5_ResolvedQuery ==
    Called("weather") =>
        /\ truthy_str(city)
        /\ hour # None
        /\ hour[1] \in 0 .. 23
        /\ result.hour = None => hour = Some((now_hour + 2) % 24)

\* the provider's entries for the day the resolver returned
SelectedHours ==
    LET fd == response[1].forecastday
        i == CHOOSE j \in 1 .. Len(fd) : fd[j].date = weather_data.forecast_day.date
    IN  fd[i].hour

C7_DaySelection ==
    (GoodResponse /\ pc # "weather") =>
        LET fd == response[1].forecastday
            hits == {i \in 1 .. Len(fd) : Some(fd[i].date) = target_date_str}
        IN  /\ pc # "raised"
            /\ IF hits = {}
               THEN weather_data = [error |-> <<"Forecast for target date not found.">>]
               ELSE /\ ForecastGiven
                    /\ Some(weather_data.forecast_day.date) = target_date_str
                    /\ \E i \in hits :
                          /\ weather_data.forecast_day.max_temp_c = fd[i].day.maxtemp_c
                          /\ weather_data.forecast_day.min_temp_c = fd[i].day.mintemp_c
                          /\ weather_data.forecast_day.condition = fd[i].day.condition.text

\* the target day is in the response, but not at the offset forecast_days - 1
C7_Witness ==
    /\ ForecastGiven
    /\ forecast_days \in 1 .. Len(response[1].forecastday)
    /\ Some(response[1].forecastday[forecast_days].date) # target_date_str
    /\ Some(weather_data.forecast_day.date) = target_date_str

(***************************************************************************)
(* C8: a non-200 status gives the error marker "Failed to retrieve weather *)
(* data, status code <code>" with that code, not an exception; and for     *)
(* every error marker of the resolver the composer returns exactly         *)
(* {text: "Sorry, the weather data could not be retrieved."}.              *)
(***************************************************************************)
C8_StatusSentinel ==
    /\ (response # None /\ ~response[1].raised /\ response[1].status_code # 200) =>
          /\ pc # "raised"
          /\ weather_data =
                [error |-> <<"Failed to retrieve weather data, status code ",
                             response[1].status_code, ".">>]
    /\ (entry = "composer" /\ "error" \in DOMAIN weather_data) =>
          /\ pc \in {"answer_check", "done"}
          /\ ~Called("llm_compose")
          /\ pc = "done" =>
                answer = [text |-> <<"Sorry, the weather data could not be retrieved.">>]

\* status 500 through the composer
C8_Witness ==
    /\ entry = "composer"
    /\ pc = "done"
    /\ response[1].status_code = 500
    /\ answer = sorry_text

CallRank(c) ==
    CASE c = "llm_extract" -> 1
      [] c = "geolocation" -> 2
      [] c = "weather" -> 3
      [] c = "llm_compose" -> 4

(***************************************************************************)
(* C9: the external calls of a request come in the order extraction model  *)
(* call, geolocation call (made exactly when the extractor's record has no *)
(* city), weather call, composition model call, each at most once; the     *)
(* composition call is made once when the resolver returns a forecast and  *)
(* not at all when it returns an error marker.                             *)
(***************************************************************************)
C9_CallSequence ==
    /\ \A i \in 1 .. Len(calls) - 1 : CallRank(calls[i]) < CallRank(calls[i + 1])
    /\ Len(calls) > 0 => calls[1] = "llm_extract"
    /\ CityResolved => (Called("geolocation") <=> ~truthy_str(result.city))
    /\ Called("llm_compose") => Called("weather")
    /\ (entry = "composer" /\ pc = "done") =>
          /\ Called("weather")
          /\ Called("llm_compose") <=> ForecastGiven
          /\ ~Called("llm_compose") <=> "error" \in DOMAIN weather_data

\* all four calls were made, in order
C9_Witness ==
    /\ pc = "done"
    /\ calls = <<"llm_extract", "geolocation", "weather", "llm_compose">>

DateExtracted ==
    "forecast_date" \in DOMAIN result /\ truthy_date_str(result.forecast_date)

(***************************************************************************)
(* C10: the day count the resolver sends always equals the forecast_days   *)
(* of the extractor's record, also when the clock advances between the     *)
(* extractor's and the resolver's reads of today; when no date was         *)
(* extracted both are 1 and target_date is the resolver's today.           *)
(***************************************************************************)
C10_RecomputationRedundant ==
    DaysComputed =>
        /\ forecast_days = result.forecast_days
        /\ ~DateExtracted => (forecast_days = 1 /\ target_date = today)

(***************************************************************************)
(* C10, amended: the day count the resolver sends equals the record's      *)
(* forecast_days minus the number of days by which the date changed        *)
(* between the extractor's read of today for the day count and the         *)
(* resolver's read; the two are equal when both reads fall on the same     *)
(* date.  When no date was extracted both are 1 and target_date is the     *)
(* resolver's today.                                                       *)
(***************************************************************************)
C10_RecomputationUpToDrift ==
    DaysComputed =>
        IF DateExtracted
        THEN /\ forecast_days = result.forecast_days - (today - ext_today)
             /\ today = ext_today => forecast_days = result.forecast_days
        ELSE /\ forecast_days = 1
             /\ result.forecast_days = 1
             /\ target_date = today

\* midnight passed between the two reads of today
C10_Witness ==
    /\ pc = "weather"
    /\ DateExtracted
    /\ today = ext_today + 1
    /\ forecast_days = result.forecast_days - 1

====
